---- MODULE Spec2Model ----
(***************************************************************************)
(* handlr: the table of default applications (mimeapps.list), its          *)
(* canonicalization against the shared MIME alias database, the commands   *)
(* that change it and the way it is saved.                                 *)
(*                                                                         *)
(* A MIME identifier is a natural number; the order of the numbers is the  *)
(* order of the identifiers' strings (Mime: Ord compares the source        *)
(* strings).  A handler is a natural number naming a desktop entry.        *)
(***************************************************************************)
EXTENDS Naturals, Integers, Sequences, FiniteSets, TLC

\* ------------------------------------------------------------------ bounds
NumMimes ==
    4
\* add_handler is not called on a list that already has this many handlers
MaxListLen ==
    3

Mimes ==
    1..NumMimes
\* the V of unalias_mime_map<V>
Values ==
    {"v1", "v2"}
\* the desktop entries installed on the system
Handlers ==
    {"vlc.desktop", "mpv.desktop"}

VARIABLES
    db,             \* SharedMimeInfo: the alias table, alias |-> canonical
    mime_map,       \* unalias_mime_map: the HashMap handed to the merge
    todo,           \* unalias_mime_map: keys mime_map.into_iter() has not yielded yet
    canonical_map,  \* unalias_mime_map: canonical |-> <<source mime, value>>
    merged,         \* unalias_mime_map: the returned HashMap
    merge_pc,       \* unalias_mime_map: "loop" until the function has returned
    file,           \* the lines of mimeapps.list at MimeApps::path()
    apps,           \* CanonicalMimeApps.mimeapps of the running process
    cmd,            \* the Cmd the process ran last
    nsaves,         \* how many times that command called MimeApps::save
    procs,          \* two invocations at once: each one's place, table, Cmd and temporary file
    replaced_by     \* the invocation whose temporary file was last renamed to the path

merge_vars ==
    <<mime_map, todo, canonical_map, merged, merge_pc>>

table_vars ==
    <<file, apps, cmd, nsaves>>

save_vars ==
    <<procs, replaced_by>>

vars ==
    <<db, mime_map, todo, canonical_map, merged, merge_pc, file, apps, cmd, nsaves,
      procs, replaced_by>>

\* ------------------------------------------------------------ hash maps
EmptyMap ==
    [k \in {} |-> 0]

\* HashMap::insert
Insert(map, k, v) ==
    [x \in (DOMAIN map) \cup {k} |-> IF x = k THEN v ELSE map[x]]

\* HashMap::remove
Remove(map, k) ==
    [x \in (DOMAIN map) \ {k} |-> map[x]]

\* All HashMaps from a subset of keys to vals.
Maps(keys, vals) ==
    UNION {[s -> vals] : s \in SUBSET keys}

\* ------------------------------------------------------- alias database
\* The alias tables of a shared MIME database: each alias names a canonical
\* type, and a canonical type is not itself an alias.
AliasTables ==
    {t \in Maps(Mimes, Mimes) : \A a \in DOMAIN t : t[a] \notin DOMAIN t}

unalias_mime(table, mime) ==
    IF mime \in DOMAIN table THEN table[mime] ELSE mime

\* ------------------------------------------------------- the merge loop
\* the last alias visited wins
AliasReplacesAlways(mime, old_mime) ==
    TRUE

\* the comparison turned around
AliasReplacesWhenAfter(mime, old_mime) ==
    mime > old_mime

\* An alias entry meets a slot already filled from another alias: does it
\* take the slot?
AliasReplaces(mime, old_mime) ==
    mime < old_mime

\* the test for a canonical-sourced slot left out
SlotNeverCanonical(canonical_mime, old_mime) ==
    FALSE

\* An alias entry meets an occupied slot: is the slot left as it is because
\* its value came from the canonical key?
SlotIsCanonical(canonical_mime, old_mime) ==
    old_mime = canonical_mime

\* One iteration of the loop over mime_map.into_iter().
MergeEntry(table, cmap, mime, v) ==
    LET canonical_mime == unalias_mime(table, mime) IN
    IF mime = canonical_mime
    THEN Insert(cmap, canonical_mime, <<canonical_mime, v>>)
    ELSE IF canonical_mime \notin DOMAIN cmap
         THEN Insert(cmap, canonical_mime, <<mime, v>>)
         ELSE LET old_mime == cmap[canonical_mime][1] IN
              IF SlotIsCanonical(canonical_mime, old_mime)
              THEN cmap
              ELSE IF AliasReplaces(mime, old_mime)
                   THEN Insert(cmap, canonical_mime, <<mime, v>>)
                   ELSE cmap

\* canonical_map.into_iter().map(|(canonical, (_actual, v))| (canonical, v)).collect()
DropSource(cmap) ==
    [c \in DOMAIN cmap |-> cmap[c][2]]

\* The whole merge with the entries visited in the order of the sequence `order`.
RECURSIVE MergeFrom(_, _, _, _)
MergeFrom(table, cmap, map, order) ==
    IF order = <<>>
    THEN DropSource(cmap)
    ELSE MergeFrom(table,
                   MergeEntry(table, cmap, Head(order), map[Head(order)]),
                   map, Tail(order))

\* The orders in which a HashMap may yield the keys in `keys`.
RECURSIVE Orders(_)
Orders(keys) ==
    IF keys = {}
    THEN {<<>>}
    ELSE UNION {{<<k>> \o rest : rest \in Orders(keys \ {k})} : k \in keys}

\* The keys of `keys` in ascending order.
RECURSIVE Ascending(_)
Ascending(keys) ==
    IF keys = {}
    THEN <<>>
    ELSE LET least == CHOOSE k \in keys : \A x \in keys : k <= x IN
         <<least>> \o Ascending(keys \ {least})

\* ---------------------------------------- specification of the merge alone
MergeInit ==
    /\ db \in AliasTables
    /\ mime_map \in Maps(Mimes, Values)
    /\ todo = DOMAIN mime_map
    /\ canonical_map = EmptyMap
    /\ merged = EmptyMap
    /\ merge_pc = "loop"
    /\ file = <<>>
    /\ apps = EmptyMap
    /\ cmd = EmptyMap
    /\ nsaves = 0
    /\ procs = EmptyMap
    /\ replaced_by = "none"

\* The iterator yields one more entry, any of those left.
MergeVisit ==
    /\ merge_pc = "loop"
    /\ \E mime \in todo :
        /\ canonical_map' = MergeEntry(db, canonical_map, mime, mime_map[mime])
        /\ todo' = todo \ {mime}
    /\ UNCHANGED <<db, mime_map, merged, merge_pc, table_vars, save_vars>>

\* The iterator is exhausted: the function returns.
MergeReturn ==
    /\ merge_pc = "loop"
    /\ todo = {}
    /\ merged' = DropSource(canonical_map)
    /\ merge_pc' = "returned"
    /\ UNCHANGED <<db, mime_map, todo, canonical_map, table_vars, save_vars>>

MergeNext ==
    \/ MergeVisit
    \/ MergeReturn

SpecMerge ==
    MergeInit /\ [][MergeNext]_vars

\* The aliases of canonical type c that key an entry of map.
AliasKeys(table, map, c) ==
    {a \in DOMAIN map : a # c /\ unalias_mime(table, a) = c}

\* C1: whatever the order in which the entries were visited, the merge returns
\* the mapping it returns when the entries are visited in ascending key order.
C1_OrderIndependent ==
    merge_pc = "returned" => merged = MergeFrom(db, EmptyMap, mime_map, Ascending(DOMAIN mime_map))

C1_Witness ==
    /\ merge_pc = "returned"
    /\ \E c \in Mimes : Cardinality(AliasKeys(db, mime_map, c)) >= 2
                        /\ \E a, b \in AliasKeys(db, mime_map, c) : mime_map[a] # mime_map[b]
    /\ merged = MergeFrom(db, EmptyMap, mime_map, Ascending(DOMAIN mime_map))

\* C2: an entry keyed by a canonical identifier, present with entries keyed by
\* its aliases, gives the result its value.
C2_CanonicalWins ==
    merge_pc = "returned" =>
        \A c \in DOMAIN mime_map :
            (unalias_mime(db, c) = c /\ AliasKeys(db, mime_map, c) # {})
                => (c \in DOMAIN merged /\ merged[c] = mime_map[c])

C2_Witness ==
    /\ merge_pc = "returned"
    /\ \E c \in DOMAIN mime_map :
        /\ unalias_mime(db, c) = c
        /\ \E a \in AliasKeys(db, mime_map, c) : a < c /\ mime_map[a] # mime_map[c]
        /\ merged[c] = mime_map[c]

\* C3: with only alias-keyed entries for a canonical type, the result maps the
\* type to the value of the entry whose alias is the smallest.
C3_SmallestAlias ==
    merge_pc = "returned" =>
        \A c \in Mimes :
            (c \notin DOMAIN mime_map /\ AliasKeys(db, mime_map, c) # {})
                => LET first == CHOOSE a \in AliasKeys(db, mime_map, c) :
                                    \A b \in AliasKeys(db, mime_map, c) : a <= b
                   IN c \in DOMAIN merged /\ merged[c] = mime_map[first]

C3_Witness ==
    /\ merge_pc = "returned"
    /\ \E c \in Mimes :
        /\ c \notin DOMAIN mime_map
        /\ \E a, b \in AliasKeys(db, mime_map, c) :
            a < b /\ mime_map[a] # mime_map[b] /\ merged[c] = mime_map[a]

\* ------------------------------------------------------------ mimeapps.list
\* A line of the file, as the grammar (common/ini.pest) yields it.
Section(title) ==
    [rule |-> "section", name |-> title]

Property(key, tokens) ==
    [rule |-> "property", name |-> key, value |-> tokens]

\* Handler::resolve: a name is a handler when its desktop entry is installed.
Resolves(name) ==
    name \in Handlers

\* split(";").filter(|s| !s.is_empty()).unique().filter_map(Handler::from_str)
RECURSIVE ParseHandlers(_, _)
ParseHandlers(tokens, seen) ==
    IF tokens = <<>>
    THEN <<>>
    ELSE LET s == Head(tokens) IN
         IF s = "" \/ s \in seen
         THEN ParseHandlers(Tail(tokens), seen)
         ELSE IF Resolves(s)
              THEN <<s>> \o ParseHandlers(Tail(tokens), seen \cup {s})
              ELSE ParseHandlers(Tail(tokens), seen \cup {s})

EmptyApps ==
    [added_associations |-> EmptyMap,
     removed_associations |-> EmptyMap,
     default_apps |-> EmptyMap]

\* MimeApps::read, the closure run on each line: conf and current_section_name
\* are threaded through the lines.
RECURSIVE ReadLines(_, _, _)
ReadLines(lines, current_section_name, conf) ==
    IF lines = <<>>
    THEN conf
    ELSE LET line == Head(lines) IN
         IF line.rule = "section"
         THEN ReadLines(Tail(lines), line.name, conf)
         ELSE LET handlers == ParseHandlers(line.value, {}) IN
              IF handlers = <<>>
              THEN ReadLines(Tail(lines), current_section_name, conf)
              ELSE IF current_section_name = "Added Associations"
              THEN ReadLines(Tail(lines), current_section_name,
                       [conf EXCEPT !.added_associations = Insert(@, line.name, handlers)])
              ELSE IF current_section_name = "Removed Associations"
              THEN ReadLines(Tail(lines), current_section_name,
                       [conf EXCEPT !.removed_associations = Insert(@, line.name, handlers)])
              ELSE IF current_section_name = "Default Applications"
              THEN ReadLines(Tail(lines), current_section_name,
                       [conf EXCEPT !.default_apps = Insert(@, line.name, handlers)])
              ELSE ReadLines(Tail(lines), current_section_name, conf)

\* MimeApps::read
read(lines) ==
    ReadLines(lines, "", EmptyApps)

\* save's write_section: one line per entry, in ascending key order, the
\* handlers joined by ";" and followed by ";" (so split(";") yields a last,
\* empty token).
RECURSIVE SectionLines(_, _)
SectionLines(items, keys) ==
    IF keys = <<>>
    THEN <<>>
    ELSE <<Property(Head(keys), items[Head(keys)] \o <<"">>)>>
            \o SectionLines(items, Tail(keys))

write_section(title, items) ==
    <<Section(title)>> \o SectionLines(items, Ascending(DOMAIN items))

\* MimeApps::save: the calls of write_section the closure makes, in order.
SaveChunks(mimeapps) ==
    <<write_section("Added Associations", mimeapps.added_associations)>>
    \o (IF DOMAIN mimeapps.removed_associations # {}
        THEN <<write_section("Removed Associations", mimeapps.removed_associations)>>
        ELSE <<>>)
    \o <<write_section("Default Applications", mimeapps.default_apps)>>

RECURSIVE Concat(_)
Concat(chunks) ==
    IF chunks = <<>> THEN <<>> ELSE Head(chunks) \o Concat(Tail(chunks))

\* MimeApps::save: everything the closure writes to the file it is given.
Serialize(mimeapps) ==
    Concat(SaveChunks(mimeapps))

\* ------------------------------------------------------- CanonicalMimeApps
\* The results unalias_mime_map may return for `map`, one per iteration order.
unalias_mime_map(table, map) ==
    {MergeFrom(table, EmptyMap, map, order) : order \in Orders(DOMAIN map)}

\* impl From<MimeApps> for CanonicalMimeApps: the tables it may build.
From(table, mimeapps) ==
    {[added_associations |-> a,
      removed_associations |-> mimeapps.removed_associations,
      default_apps |-> d] :
        a \in unalias_mime_map(table, mimeapps.added_associations),
        d \in unalias_mime_map(table, mimeapps.default_apps)}

\* the handler put first
PushFront(list, handler) ==
    <<handler>> \o list

\* entry(mime).or_default().push_back(handler)
PushBack(list, handler) ==
    Append(list, handler)

\* MimeApps::add_handler
add_handler(mimeapps, mime, handler) ==
    [mimeapps EXCEPT !.default_apps =
        Insert(@, mime, PushBack(IF mime \in DOMAIN @ THEN @[mime] ELSE <<>>, handler))]

\* the identifier handed on as it was given
unalias_skipped(table, mime) ==
    mime

\* CanonicalMimeApps::unalias
unalias(table, mime) ==
    unalias_mime(table, mime)

\* the handler put in front of the list already there
set_handler_keeping(mimeapps, mime, handler) ==
    [mimeapps EXCEPT !.default_apps =
        Insert(@, mime, PushFront(IF mime \in DOMAIN @ THEN @[mime] ELSE <<>>, handler))]

\* MimeApps::set_handler
set_handler(mimeapps, mime, handler) ==
    [mimeapps EXCEPT !.default_apps = Insert(@, mime, <<handler>>)]

\* save called whether or not an entry was removed
RemovesAlways(mimeapps, mime) ==
    TRUE

\* MimeApps::remove_handler: is there an entry to remove (Some(_removed))?
Removes(mimeapps, mime) ==
    mime \in DOMAIN mimeapps.default_apps

\* MimeApps::remove_handler: the table after default_apps.remove(mime)
remove_handler(mimeapps, mime) ==
    [mimeapps EXCEPT !.default_apps = Remove(@, mime)]

\* ------------------------------------------------------- the alias database
\* of the table's specification: of every three identifiers m-1, m, m+1 with
\* m = 2, 5, ... the middle one is canonical and the other two are its
\* aliases, one sorting before it and one after; an identifier whose middle
\* one does not exist has no alias entry.
SystemAliases ==
    LET canonical(m) == 3 * ((m - 1) \div 3) + 2 IN
    [a \in {m \in Mimes : canonical(m) # m /\ canonical(m) \in Mimes} |-> canonical(a)]

\* ------------------------------------------------------------ files to load
\* The value of the line keyed k in a file written by hand or by another
\* program: repeated, empty and unknown names occur.
RawTokens(k) ==
    CASE k % 3 = 0 -> <<"vlc.desktop", "vlc.desktop", "">>
      [] k % 3 = 1 -> <<"mpv.desktop", "", "gone.desktop", "vlc.desktop", "mpv.desktop">>
      [] OTHER     -> <<"vlc.desktop", "mpv.desktop", "vlc.desktop">>

\* The lines keyed by `keys`, in descending key order.
RECURSIVE RawLines(_)
RawLines(keys) ==
    IF keys = {}
    THEN <<>>
    ELSE LET last == CHOOSE k \in keys : \A x \in keys : x <= k IN
         <<Property(last, RawTokens(last))>> \o RawLines(keys \ {last})

RawFile(ka, kr, kd) ==
    <<Section("Default Applications")>> \o RawLines(kd)
    \o <<Section("Removed Associations")>> \o RawLines(kr)
    \o <<Section("Added Associations")>> \o RawLines(ka)

\* The keys of the [Added Associations] and [Removed Associations] sections of
\* the files loaded: none, aliases only, every identifier, a canonical one only.
SideKeys ==
    {<<{}, {}>>, <<DOMAIN SystemAliases, {}>>, <<Mimes, {1}>>, <<{2}, {1, 2}>>}

InitialFiles ==
    {<<>>} \cup
    {RawFile(side[1], side[2], kd) : side \in SideKeys, kd \in SUBSET Mimes}

NoCmd ==
    [op |-> "none", mime |-> 0, handler |-> ""]

\* ------------------------------------------------ specification of the table
TableInit ==
    /\ db = SystemAliases
    /\ file \in InitialFiles
    /\ apps \in From(db, read(file))
    /\ cmd = NoCmd
    /\ nsaves = 0
    /\ mime_map = EmptyMap
    /\ todo = {}
    /\ canonical_map = EmptyMap
    /\ merged = EmptyMap
    /\ merge_pc = "unused"
    /\ procs = EmptyMap
    /\ replaced_by = "none"

\* A new invocation: CanonicalMimeApps::read
Load ==
    /\ apps' \in From(db, read(file))
    /\ cmd' = NoCmd
    /\ nsaves' = 0
    /\ UNCHANGED <<db, file, merge_vars, save_vars>>

\* Cmd::Add: apps.add_handler(mime, handler); apps.save()
Add(mime, handler) ==
    LET canonical == unalias(db, mime) IN
    /\ canonical \in DOMAIN apps.default_apps => Len(apps.default_apps[canonical]) < MaxListLen
    /\ apps' = add_handler(apps, canonical, handler)
    /\ file' = Serialize(apps')
    /\ nsaves' = 1
    /\ cmd' = [op |-> "add", mime |-> mime, handler |-> handler]
    /\ UNCHANGED <<db, merge_vars, save_vars>>

\* Cmd::Set: apps.set_handler(mime, handler); apps.save()
Set(mime, handler) ==
    /\ apps' = set_handler(apps, unalias(db, mime), handler)
    /\ file' = Serialize(apps')
    /\ nsaves' = 1
    /\ cmd' = [op |-> "set", mime |-> mime, handler |-> handler]
    /\ UNCHANGED <<db, merge_vars, save_vars>>

\* Cmd::Unset: apps.remove_handler(&mime), which saves when it removed an entry
Unset(mime) ==
    LET canonical == unalias(db, mime) IN
    /\ apps' = remove_handler(apps, canonical)
    /\ IF Removes(apps, canonical)
       THEN file' = Serialize(apps') /\ nsaves' = 1
       ELSE file' = file /\ nsaves' = 0
    /\ cmd' = [op |-> "unset", mime |-> mime, handler |-> ""]
    /\ UNCHANGED <<db, merge_vars, save_vars>>

\* Cmd::List: apps.print(all)
List ==
    /\ cmd' = [op |-> "list", mime |-> 0, handler |-> ""]
    /\ nsaves' = 0
    /\ UNCHANGED <<db, file, apps, merge_vars, save_vars>>

Next ==
    \/ Load
    \/ \E mime \in Mimes, handler \in Handlers : Add(mime, handler)
    \/ \E mime \in Mimes, handler \in Handlers : Set(mime, handler)
    \/ \E mime \in Mimes : Unset(mime)
    \/ List

Spec ==
    TableInit /\ [][Next]_vars

Lists(mimeapps) ==
    {mimeapps.added_associations[k] : k \in DOMAIN mimeapps.added_associations}
    \cup {mimeapps.removed_associations[k] : k \in DOMAIN mimeapps.removed_associations}
    \cup {mimeapps.default_apps[k] : k \in DOMAIN mimeapps.default_apps}

CanonicalKeys(map) ==
    /\ \A k \in DOMAIN map : unalias_mime(db, k) = k
    /\ \A k1, k2 \in DOMAIN map : unalias_mime(db, k1) = unalias_mime(db, k2) => k1 = k2

\* C4: once the table is built, and after every add, set and remove, each key
\* of added_associations and of default_apps is a canonical identifier, and no
\* two keys of a mapping denote the same canonical type.
C4_KeysCanonical ==
    CanonicalKeys(apps.added_associations) /\ CanonicalKeys(apps.default_apps)

C4_Witness ==
    /\ cmd.op \in {"add", "set"}
    /\ cmd.mime \in DOMAIN db
    /\ db[cmd.mime] \in DOMAIN apps.default_apps
    /\ \E a \in DOMAIN db : db[a] \in DOMAIN apps.added_associations
                            /\ \E i \in 1..Len(file) : file[i] = Property(db[a], apps.added_associations[db[a]] \o <<"">>)
    /\ CanonicalKeys(apps.added_associations) /\ CanonicalKeys(apps.default_apps)

\* C5: every handler list of the table holds each handler at most once.
C5_NoDuplicateHandlers ==
    \A list \in Lists(apps) : \A i, j \in 1..Len(list) : list[i] = list[j] => i = j

\* C6: remove(mime) deletes default_apps[canonicalize(mime)] and saves once
\* when the key is there; it saves nothing and changes neither the table nor
\* the file when the key is not there, as when remove on the same type was the
\* command just before.
C6_RemoveWritesOnce ==
    [][(cmd'.op = "unset" /\ Unset(cmd'.mime)) =>
        LET canonical == unalias_mime(db, cmd'.mime) IN
        /\ canonical \notin DOMAIN apps'.default_apps
        /\ IF canonical \in DOMAIN apps.default_apps
           THEN /\ apps' = [apps EXCEPT !.default_apps = Remove(@, canonical)]
                /\ nsaves' = 1
                /\ file' = Serialize(apps')
           ELSE /\ apps' = apps
                /\ nsaves' = 0
                /\ file' = file
        /\ (cmd.op = "unset" /\ unalias_mime(db, cmd.mime) = canonical) => (nsaves' = 0 /\ file' = file)
      ]_vars

C6_Witness ==
    /\ cmd.op = "unset"
    /\ cmd.mime \in DOMAIN db
    /\ nsaves = 1
    /\ db[cmd.mime] \notin DOMAIN apps.default_apps
    /\ file = Serialize(apps)

\* C7: after set(mime, handler), given a canonical identifier or an alias,
\* default_apps[canonicalize(mime)] is the list [handler] and an alias given as
\* mime keys no entry.
C7_SetReplaces ==
    cmd.op = "set" =>
        LET canonical == unalias_mime(db, cmd.mime) IN
        /\ canonical \in DOMAIN apps.default_apps
        /\ apps.default_apps[canonical] = <<cmd.handler>>
        /\ cmd.mime # canonical => cmd.mime \notin DOMAIN apps.default_apps

C7_Witness ==
    /\ cmd.op = "set"
    /\ cmd.mime \in DOMAIN db
    /\ apps.default_apps[db[cmd.mime]] = <<cmd.handler>>
    /\ cmd.mime \notin DOMAIN apps.default_apps
    /\ \E i \in 1..Len(file) : file[i] = Property(db[cmd.mime], <<cmd.handler, "">>)

\* C9: add(mime, handler) puts handler after the handlers already listed
\* for the type, which keep their order and their first place, or makes the
\* list [handler] when the type has no entry; the entries of the other types
\* and the added associations stay as they were.
C9_AddAppends ==
    [][(cmd'.op = "add" /\ Add(cmd'.mime, cmd'.handler)) =>
        LET canonical == unalias_mime(db, cmd'.mime)
            handler == cmd'.handler
            old == IF canonical \in DOMAIN apps.default_apps
                   THEN apps.default_apps[canonical] ELSE <<>>
        IN
        /\ DOMAIN apps'.default_apps = DOMAIN apps.default_apps \cup {canonical}
        /\ apps'.default_apps[canonical] = old \o <<handler>>
        /\ old # <<>> => apps'.default_apps[canonical][1] = old[1]
        /\ \A k \in DOMAIN apps.default_apps :
            k # canonical => apps'.default_apps[k] = apps.default_apps[k]
        /\ apps'.added_associations = apps.added_associations
        /\ apps'.removed_associations = apps.removed_associations
      ]_vars

C9_Witness ==
    /\ cmd.op = "add"
    /\ LET canonical == unalias_mime(db, cmd.mime) IN
        /\ Len(apps.default_apps[canonical]) >= 3
        /\ apps.default_apps[canonical][Len(apps.default_apps[canonical])] = cmd.handler
        /\ apps.default_apps[canonical][1] # cmd.handler
        /\ \E k \in DOMAIN apps.default_apps : k # canonical

\* ------------------------------------------ two invocations and the file
Procs ==
    {"p1", "p2"}

\* Cmd::parse: the commands of the command line
Cmds ==
    {[op |-> o, mime |-> m, handler |-> h] : o \in {"add", "set"}, m \in Mimes, h \in Handlers}
    \cup {[op |-> "unset", mime |-> m, handler |-> ""] : m \in Mimes}
    \cup {[op |-> "list", mime |-> 0, handler |-> ""]}

\* main: the arm of the match run for command c on the table mimeapps; `save`
\* tells whether the arm calls MimeApps::save.
Dispatch(table, mimeapps, c) ==
    LET canonical == unalias(table, c.mime) IN
    CASE c.op = "set" ->
            [apps |-> set_handler(mimeapps, canonical, c.handler), save |-> TRUE]
      [] c.op = "add" ->
            [apps |-> add_handler(mimeapps, canonical, c.handler), save |-> TRUE]
      [] c.op = "unset" ->
            [apps |-> remove_handler(mimeapps, canonical), save |-> Removes(mimeapps, canonical)]
      [] OTHER ->
            [apps |-> mimeapps, save |-> FALSE]

\* the closure writing to the configuration path itself
WriterFileInPlace(p) ==
    "path"

\* MimeApps::save: the closure wraps the file AtomicFile::write hands it, the
\* temporary file of this invocation, in its BufWriter.
WriterFile(p) ==
    "tmp"

\* AtomicFile: the content of file `which` of invocation p set to `content`.
SetContent(which, p, content) ==
    IF which = "path"
    THEN /\ file' = content
         /\ procs' = [procs EXCEPT ![p].nwritten = IF content = <<>> THEN 0 ELSE @ + 1,
                                   ![p].pc = "write"]
    ELSE /\ file' = file
         /\ procs' = [procs EXCEPT ![p].tmp = content,
                                   ![p].nwritten = IF content = <<>> THEN 0 ELSE @ + 1,
                                   ![p].pc = "write"]

Content(which, p) ==
    IF which = "path" THEN file ELSE procs[p].tmp

\* The files the two invocations find.
SaveInitialFiles ==
    {<<>>, RawFile({}, {1}, {2})} \cup {RawFile({}, {}, {k}) : k \in Mimes}

NewProc ==
    [pc |-> "start", apps |-> EmptyApps, cmd |-> NoCmd, tmp |-> <<>>, nwritten |-> 0]

SaveInit ==
    /\ db = SystemAliases
    /\ file \in SaveInitialFiles
    /\ procs = [p \in Procs |-> NewProc]
    /\ replaced_by = "none"
    /\ apps = EmptyApps
    /\ cmd = NoCmd
    /\ nsaves = 0
    /\ mime_map = EmptyMap
    /\ todo = {}
    /\ canonical_map = EmptyMap
    /\ merged = EmptyMap
    /\ merge_pc = "unused"

\* main up to the call of save: the table is read from the path and built,
\* and the command changes this invocation's copy.
Run(p, c) ==
    /\ procs[p].pc = "start"
    /\ \E loaded \in From(db, read(file)) :
        LET arm == Dispatch(db, loaded, c) IN
        procs' = [procs EXCEPT ![p].apps = arm.apps,
                               ![p].cmd = c,
                               ![p].pc = IF arm.save THEN "save" ELSE "done"]
    /\ UNCHANGED <<db, file, replaced_by, merge_vars, apps, cmd, nsaves>>

\* AtomicFile::write: the file the closure will write to starts empty.
CreateTemp(p) ==
    /\ procs[p].pc = "save"
    /\ SetContent(WriterFile(p), p, <<>>)
    /\ UNCHANGED <<db, replaced_by, merge_vars, apps, cmd, nsaves>>

\* The closure of save: the next write_section reaches the file.
WriteSection(p) ==
    /\ procs[p].pc = "write"
    /\ procs[p].nwritten < Len(SaveChunks(procs[p].apps))
    /\ SetContent(WriterFile(p), p,
                  Content(WriterFile(p), p) \o SaveChunks(procs[p].apps)[procs[p].nwritten + 1])
    /\ UNCHANGED <<db, replaced_by, merge_vars, apps, cmd, nsaves>>

\* AtomicFile::write after the closure returned Ok: the temporary file is
\* renamed to the path (OverwriteBehavior::AllowOverwrite).
Persist(p) ==
    /\ procs[p].pc = "write"
    /\ procs[p].nwritten = Len(SaveChunks(procs[p].apps))
    /\ file' = procs[p].tmp
    /\ replaced_by' = p
    /\ procs' = [procs EXCEPT ![p].pc = "done"]
    /\ UNCHANGED <<db, merge_vars, apps, cmd, nsaves>>

\* The invocation is killed, or the machine stops, during the save.
Crash(p) ==
    /\ procs[p].pc \in {"save", "write"}
    /\ procs' = [procs EXCEPT ![p].pc = "crashed"]
    /\ UNCHANGED <<db, file, replaced_by, merge_vars, apps, cmd, nsaves>>

SaveNext ==
    \/ \E p \in Procs, c \in Cmds : Run(p, c)
    \/ \E p \in Procs : CreateTemp(p)
    \/ \E p \in Procs : WriteSection(p)
    \/ \E p \in Procs : Persist(p)
    \/ \E p \in Procs : Crash(p)

SpecSave ==
    SaveInit /\ [][SaveNext]_vars

\* C8: no step of a save, nor a crash during it, leaves at the path anything
\* but the content that was there or the whole of what an invocation saves.
C8_AtomicReplace ==
    [][\/ file' = file
       \/ \E p \in Procs : /\ procs[p].pc = "write"
                           /\ file' = Serialize(procs[p].apps)]_vars

C8_Witness ==
    \E p, q \in Procs :
        /\ procs[p].pc = "crashed"
        /\ procs[p].nwritten >= 1
        /\ procs[p].nwritten < Len(SaveChunks(procs[p].apps))
        /\ procs[p].tmp # Serialize(procs[p].apps)
        /\ procs[q].pc = "done"
        /\ replaced_by = q
        /\ file = Serialize(procs[q].apps)

\* C10: the path holds exactly what the invocation whose rename came last
\* saved, its own table; nothing of the other invocation's table is merged in.
C10_LastWriterWins ==
    \A p \in Procs : replaced_by = p => file = Serialize(procs[p].apps)

\* Both invocations read the same file, both saved, and the edit of the one
\* that renamed first is gone.
C10_Witness ==
    \E p, q \in Procs :
        /\ p # q
        /\ procs[p].pc = "done" /\ procs[q].pc = "done"
        /\ procs[p].cmd.op = "set" /\ procs[q].cmd.op = "set"
        /\ unalias_mime(db, procs[p].cmd.mime) # unalias_mime(db, procs[q].cmd.mime)
        /\ replaced_by = q
        /\ file = Serialize(procs[q].apps)
        /\ unalias_mime(db, procs[p].cmd.mime) \notin DOMAIN read(file).default_apps
        /\ unalias_mime(db, procs[p].cmd.mime) \in DOMAIN procs[p].apps.default_apps

\* C11: reading the lines that save writes for the table gives the table back:
\* the same keys in added_associations, removed_associations and default_apps,
\* and under each key the same handlers in the same order.
C11_RoundTrip ==
    read(Serialize(apps)) = apps
====
